---- MODULE Spec2Model ----
(***************************************************************************)
(* Model of custom_components/openai_control: OpenAIAgent.async_process,   *)
(* the conversation turn of the OpenAI Control agent.                      *)
(*                                                                         *)
(* Text is a sequence of tokens.  A token is a piece of text that the      *)
(* code never looks into: a prose word, a quoted JSON string, or one of    *)
(* the JSON punctuation characters, which the code does search for         *)
(* (content.find('{'), content.rfind('}')) and json.loads does parse.      *)
(***************************************************************************)
EXTENDS Integers, Sequences, FiniteSets, TLC

(***************************************************************************)
(* Bounds of the model.                                                    *)
(***************************************************************************)
MaxTurns == 2
MaxEntities == 2

(***************************************************************************)
(* Python values.                                                          *)
(***************************************************************************)
None == "None"
Unbound == "<unbound local>"

(***************************************************************************)
(* const.py                                                                *)
(***************************************************************************)
SYSTEM_PROMPT == <<"\nOn every message you will be provided with a prompt and a list of devices ...\n">>

(***************************************************************************)
(* json: values are tagged, t in {"str", "list", "dict"}; a dict is a      *)
(* function from its keys to values.                                       *)
(***************************************************************************)
Punct == {"{", "}", "[", "]", ",", ":"}
Prose == {"Sure thing!", "Hello! How can I help?", "oops"}

JStr(s) == [t |-> "str", v |-> s]
JList(l) == [t |-> "list", v |-> l]
JDict(d) == [t |-> "dict", v |-> d]

IsStringLiteral(tok) == tok \notin Punct /\ tok \notin Prose

ParseFail == [ok |-> FALSE, val |-> JStr(""), next |-> 0]
ParseOk(val, next) == [ok |-> TRUE, val |-> val, next |-> next]

RECURSIVE ParseValue(_, _), ParseMembers(_, _, _), ParseElements(_, _, _)

\* One JSON value starting at token i of s.
ParseValue(s, i) ==
    IF i > Len(s) THEN ParseFail
    ELSE IF s[i] = "{" THEN
        IF i + 1 <= Len(s) /\ s[i + 1] = "}" THEN ParseOk(JDict(<<>>), i + 2)
        ELSE ParseMembers(s, i + 1, <<>>)
    ELSE IF s[i] = "[" THEN
        IF i + 1 <= Len(s) /\ s[i + 1] = "]" THEN ParseOk(JList(<<>>), i + 2)
        ELSE ParseElements(s, i + 1, <<>>)
    ELSE IF IsStringLiteral(s[i]) THEN ParseOk(JStr(s[i]), i + 1)
    ELSE ParseFail

\* key : value pairs up to the closing brace; a repeated key keeps the last.
ParseMembers(s, i, acc) ==
    IF i + 1 <= Len(s) /\ IsStringLiteral(s[i]) /\ s[i + 1] = ":" THEN
        LET r == ParseValue(s, i + 2)
            acc2 == (s[i] :> r.val) @@ acc
        IN  IF ~r.ok \/ r.next > Len(s) THEN ParseFail
            ELSE IF s[r.next] = "," THEN ParseMembers(s, r.next + 1, acc2)
            ELSE IF s[r.next] = "}" THEN ParseOk(JDict(acc2), r.next + 1)
            ELSE ParseFail
    ELSE ParseFail

\* values up to the closing bracket.
ParseElements(s, i, acc) ==
    LET r == ParseValue(s, i)
        acc2 == Append(acc, r.val)
    IN  IF ~r.ok \/ r.next > Len(s) THEN ParseFail
        ELSE IF s[r.next] = "," THEN ParseElements(s, r.next + 1, acc2)
        ELSE IF s[r.next] = "]" THEN ParseOk(JList(acc2), r.next + 1)
        ELSE ParseFail

\* json.loads: the whole text is one value, or JSONDecodeError (ok = FALSE).
json_loads(s) ==
    LET r == ParseValue(s, 1)
    IN  IF r.ok /\ r.next = Len(s) + 1 THEN [ok |-> TRUE, val |-> r.val]
        ELSE [ok |-> FALSE, val |-> JStr("")]

\* str.find / str.rfind on tokens, 0-based as in Python, -1 when absent.
find(s, tok) ==
    IF \E i \in 1..Len(s) : s[i] = tok
    THEN (CHOOSE i \in 1..Len(s) : s[i] = tok /\ \A j \in 1..(i - 1) : s[j] # tok) - 1
    ELSE -1

rfind(s, tok) ==
    IF \E i \in 1..Len(s) : s[i] = tok
    THEN (CHOOSE i \in 1..Len(s) : s[i] = tok /\ \A j \in (i + 1)..Len(s) : s[j] # tok) - 1
    ELSE -1

\* content[start:end] for 0 <= start, 0 <= end.
Slice(s, start, end) ==
    LET e == IF end > Len(s) THEN Len(s) ELSE end
    IN  IF start >= e THEN <<>> ELSE SubSeq(s, start + 1, e)

(***************************************************************************)
(* The host (Home Assistant) as seen by the agent.                         *)
(***************************************************************************)
Procs == {"t1", "t2"}

location_name == "Home"

\* hass.services.async_services(): domain -> its services, in registry order.
all_services == [light |-> <<"turn_on", "turn_off">>]

has_service(domain, action) ==
    /\ domain \in DOMAIN all_services
    /\ \E i \in 1..Len(all_services[domain]) : all_services[domain][i] = action

\* self.hass: the entities the host enumerates, in its order, and its
\* entity registry.  A turn reads it and never changes it.
VARIABLE hass

EntityPool == {"light.kitchen", "sensor.attic", "light.hall"}

\* A registry entry: its domain, its name if it was given one, and
\* options['conversation']['should_expose'].
RegistryEntry(e, should_expose) ==
    [domain |-> IF e = "sensor.attic" THEN "sensor" ELSE "light",
     name |-> IF e = "light.kitchen" THEN "Kitchen" ELSE None,
     should_expose |-> should_expose]

\* The host of the turns: the kitchen light is exposed, the hall light is
\* registered and not exposed, the attic sensor is not in the registry.
Home ==
    [entity_ids |-> <<"light.kitchen", "sensor.attic", "light.hall">>,
     registry_entities |-> [e \in {"light.kitchen", "light.hall"} |->
                               RegistryEntry(e, e = "light.kitchen")],
     states |-> [e \in EntityPool |-> IF e = "light.kitchen" THEN "off" ELSE ""]]

\* Every enumeration order of every part of the pool.
Orders ==
    {ids \in UNION {[1..n -> EntityPool] : n \in 0..Cardinality(EntityPool)} :
        \A i, j \in DOMAIN ids : ids[i] = ids[j] => i = j}

\* The hosts prompt rendering is checked on: every order, every registry,
\* every choice of exposed entries.
Hosts ==
    UNION {UNION {{[Home EXCEPT !.entity_ids = ids,
                               !.registry_entities =
                                   [e \in reg |-> RegistryEntry(e, e \in exposed)]]
                      : ids \in Orders}
                  : exposed \in SUBSET reg}
           : reg \in SUBSET EntityPool}

\* hass.states.async_entity_ids(), hass.states.get and registry.entities.get.
entity_ids == hass.entity_ids

registry_entities == hass.registry_entities

states == hass.states

\* entry.options[CONF_PROMPT] values the model draws from; the last does
\* not render.
RawPrompts ==
    { <<"You are the voice of ", "{{ ha_name }}", ".">>,
      <<"You are the voice of ", "{{ ha_name">> }

Texts == {"turn on the kitchen light", "is the light on?"}

(***************************************************************************)
(* Program state.                                                          *)
(*   history  self.history: conversation id -> the list object stored      *)
(*   heap     list object -> its messages (Python lists are shared by      *)
(*            reference: messages = self.history[conversation_id])         *)
(*   ulids    number of identifiers ulid.ulid() has generated              *)
(*   turns    number of async_process calls started                        *)
(*   turn     the frame of each async_process call: its locals, where it   *)
(*            is suspended, what it called, and what it returned; its      *)
(*            field shared records, for the claims about concurrent turns, *)
(*            that another turn ran under the same conversation id while   *)
(*            this one was suspended                                       *)
(***************************************************************************)
VARIABLES history, heap, ulids, turns, turn

vars == <<hass, history, heap, ulids, turns, turn>>

Message(role, content) == [role |-> role, content |-> content]

Call(op, domain, action, entity_id) ==
    [op |-> op, domain |-> domain, action |-> action, entity_id |-> entity_id]

NoResult == [kind |-> "none", text |-> <<>>, conversation_id |-> Unbound]

\* The histories by value: conversation id -> messages.
Stored == [k \in DOMAIN history |-> heap[history[k]]]

IdleTurn ==
    [pc |-> "idle", exc |-> "none",
     cid_in |-> None, text |-> "", raw_prompt |-> <<>>, prompt |-> <<>>,
     conversation_id |-> Unbound, messages |-> 0,
     openai_messages |-> <<>>, content |-> <<>>,
     parsed |-> FALSE, first_ok |-> FALSE, second_ok |-> FALSE,
     json_response |-> JStr(""), idx |-> 0,
     reply |-> <<>>, calls |-> <<>>, result |-> NoResult,
     before |-> <<>>, known |-> FALSE, shared |-> FALSE]

Init ==
    /\ hass = Home
    /\ history = <<>>
    /\ heap = <<>>
    /\ ulids = 0
    /\ turns = 0
    /\ turn = [p \in Procs |-> IdleTurn]

(***************************************************************************)
(* Prompt rendering.                                                       *)
(***************************************************************************)
RECURSIVE join(_, _)
\* sep.join(items)
join(sep, items) ==
    IF Len(items) = 0 THEN <<>>
    ELSE IF Len(items) = 1 THEN <<items[1]>>
    ELSE <<items[1], sep>> \o join(sep, Tail(items))

\* Template(ENTITY_TEMPLATE).substitute(...)
entity_template(id, domain, name, status, action) ==
    <<id, "<>", name, "<>", domain, "<>", status, "<>">> \o action \o <<"\n">>

\* Template(PROMPT_TEMPLATE).substitute(entities=..., prompt=...)
prompt_template(entities, prompt) ==
    <<"Entities:\n">> \o entities \o <<"\n\nPrompt: \"", prompt, "\"\n">>

\* EntityLine without the test of should_expose.
EntityLine_IgnoresExposure(entity_id) ==
    IF entity_id \notin DOMAIN registry_entities THEN <<>>
    ELSE LET entity == registry_entities[entity_id]
             status_string == states[entity_id]
             services == IF entity.domain \in DOMAIN all_services
                         THEN all_services[entity.domain] ELSE <<>>
         IN  entity_template(
                 entity_id,
                 entity.domain,
                 IF entity.name = None THEN entity_id ELSE entity.name,
                 IF status_string = "" THEN "unknown" ELSE status_string,
                 join(",", services))

\* One pass of the loop over entity_ids: the line of an exposed entity,
\* nothing for an entity the registry lacks or does not expose.
EntityLine(entity_id) ==
    IF entity_id \notin DOMAIN registry_entities THEN <<>>
    ELSE LET entity == registry_entities[entity_id]
             status_string == states[entity_id]
             services == IF entity.domain \in DOMAIN all_services
                         THEN all_services[entity.domain] ELSE <<>>
         IN  IF ~entity.should_expose THEN <<>>
             ELSE entity_template(
                      entity_id,
                      entity.domain,
                      IF entity.name = None THEN entity_id ELSE entity.name,
                      IF status_string = "" THEN "unknown" ELSE status_string,
                      join(",", services))

RECURSIVE entities_template(_)
entities_template(ids) ==
    IF Len(ids) = 0 THEN <<>>
    ELSE EntityLine(Head(ids)) \o entities_template(Tail(ids))

prompt_render(text) == prompt_template(entities_template(entity_ids), text)

\* _async_generate_prompt: the template renders when every {{ is closed;
\* {{ ha_name }} becomes the location name.
TemplateError(raw_prompt) ==
    \E i \in 1..Len(raw_prompt) : raw_prompt[i] = "{{ ha_name"

_async_generate_prompt(raw_prompt) ==
    [i \in 1..Len(raw_prompt) |->
        IF raw_prompt[i] = "{{ ha_name }}" THEN location_name ELSE raw_prompt[i]]

(***************************************************************************)
(* Leaving async_process.                                                  *)
(***************************************************************************)
\* raise: the frame is gone, and with it the references it held.
Raise(t, exc) ==
    [t EXCEPT !.pc = "raised", !.exc = exc, !.messages = 0]

\* return conversation.ConversationResult(response=..., conversation_id=
\* conversation_id): reading the local conversation_id before it is
\* assigned raises UnboundLocalError.
ConversationResult(t, kind, text) ==
    IF t.conversation_id = Unbound THEN Raise(t, "UnboundLocalError")
    ELSE [t EXCEPT !.pc = "done", !.messages = 0,
                   !.result = [kind |-> kind, text |-> text,
                               conversation_id |-> t.conversation_id]]

\* The list objects still referenced once frame p is replaced by t:
\* a list no stored history and no frame refers to is collected.
Live(h, p, t) ==
    {h[k] : k \in DOMAIN h} \cup {t.messages}
        \cup {turn[q].messages : q \in Procs \ {p}}

Collect(hp, h, p, t) == [a \in DOMAIN hp \cap Live(h, p, t) |-> hp[a]]

\* A list object that does not exist yet.
NewList(hp) == CHOOSE a \in 1..(Cardinality(DOMAIN hp) + 1) : a \notin DOMAIN hp

\* ulid.ulid(): an identifier never generated before.
ulid(n) == ToString(n + 1)

(***************************************************************************)
(* async_process, as operators on m = [t, heap, history, ulids]: the frame *)
(* of the call and the state it shares with the other calls.               *)
(***************************************************************************)
\* Append_ putting the message in front of the list.
Append_Front(m, role, content) ==
    [m EXCEPT !.heap[m.t.messages] = <<Message(role, content)>> \o @]

Append_(m, role, content) ==
    [m EXCEPT !.heap[m.t.messages] = Append(@, Message(role, content))]

\* ResolveSession with an identifier generator that repeats itself.
ResolveSession_RepeatedUlid(m) ==
    IF m.t.cid_in \in DOMAIN m.history
    THEN [m EXCEPT !.t.conversation_id = m.t.cid_in,
                   !.t.messages = m.history[m.t.cid_in]]
    ELSE LET a == NewList(m.heap)
         IN  [m EXCEPT !.t.conversation_id = ulid(0),
                       !.ulids = @ + 1,
                       !.t.messages = a,
                       !.heap = (a :> <<Message("system", m.t.prompt \o SYSTEM_PROMPT)>>) @@ @]

\* ResolveSession continuing a conversation on a copy of its stored list.
ResolveSession_Copies(m) ==
    LET a == NewList(m.heap)
    IN  IF m.t.cid_in \in DOMAIN m.history
        THEN [m EXCEPT !.t.conversation_id = m.t.cid_in,
                       !.t.messages = a,
                       !.heap = (a :> m.heap[m.history[m.t.cid_in]]) @@ @]
        ELSE [m EXCEPT !.t.conversation_id = ulid(m.ulids),
                       !.ulids = @ + 1,
                       !.t.messages = a,
                       !.heap = (a :> <<Message("system", m.t.prompt \o SYSTEM_PROMPT)>>) @@ @]

\* ResolveSession starting every new conversation on one and the same list.
ResolveSession_OneList(m) ==
    IF m.t.cid_in \in DOMAIN m.history
    THEN [m EXCEPT !.t.conversation_id = m.t.cid_in,
                   !.t.messages = m.history[m.t.cid_in]]
    ELSE [m EXCEPT !.t.conversation_id = ulid(m.ulids),
                   !.ulids = @ + 1,
                   !.t.messages = 1,
                   !.heap = (1 :> <<Message("system", m.t.prompt \o SYSTEM_PROMPT)>>) @@ @]

\* Lines 131-140: the conversation continues when its id is a key of
\* self.history, and starts under a new ulid otherwise.
ResolveSession(m) ==
    IF m.t.cid_in \in DOMAIN m.history
    THEN [m EXCEPT !.t.conversation_id = m.t.cid_in,
                   !.t.messages = m.history[m.t.cid_in]]
    ELSE LET a == NewList(m.heap)
         IN  [m EXCEPT !.t.conversation_id = ulid(m.ulids),
                       !.ulids = @ + 1,
                       !.t.messages = a,
                       !.heap = (a :> <<Message("system", m.t.prompt \o SYSTEM_PROMPT)>>) @@ @]

\* CallModel recording the rendered prompt, not the utterance, as the
\* user's message.
CallModel_RecordsRenderedPrompt(m) ==
    LET sent == m.heap[m.t.messages] \o <<Message("user", prompt_render(m.t.text))>>
        m1 == [m EXCEPT !.t.openai_messages = sent]
        m2 == Append_(m1, "user", prompt_render(m.t.text))
    IN  [m2 EXCEPT !.t.pc = "await_llm",
                   !.t.calls = Append(@, Call("acreate", "", "", m.t.conversation_id))]

\* CallModel sending the recorded history, the utterance as its last message.
CallModel_SendsRecorded(m) ==
    LET m2 == Append_(m, "user", <<m.t.text>>)
        m1 == [m2 EXCEPT !.t.openai_messages = m2.heap[m.t.messages]]
    IN  [m1 EXCEPT !.t.pc = "await_llm",
                   !.t.calls = Append(@, Call("acreate", "", "", m.t.conversation_id))]

\* Lines 178-202: what is sent to the model, the user's message recorded,
\* and the call to openai.ChatCompletion.acreate awaited.
CallModel(m) ==
    LET sent == m.heap[m.t.messages] \o <<Message("user", prompt_render(m.t.text))>>
        m1 == [m EXCEPT !.t.openai_messages = sent]
        m2 == Append_(m1, "user", <<m.t.text>>)
    IN  [m2 EXCEPT !.t.pc = "await_llm",
                   !.t.calls = Append(@, Call("acreate", "", "", m.t.conversation_id))]

\* Lines 116-129: a template that does not render ends the turn.
RenderFailed(m) ==
    [m EXCEPT !.t = ConversationResult(m.t, "error",
                        <<"Sorry, I had a problem with my template: ", "TemplateError">>)]

\* Lines 105-202.
Begin(m, raw_prompt) ==
    IF TemplateError(raw_prompt) THEN RenderFailed(m)
    ELSE CallModel(ResolveSession(
             [m EXCEPT !.t.prompt = _async_generate_prompt(raw_prompt)]))

\* ProviderError storing the history before it returns the error.
ProviderError_Persists(m, err) ==
    LET m1 == [m EXCEPT !.history = (m.t.conversation_id :> m.t.messages) @@ @]
    IN  [m1 EXCEPT !.t = ConversationResult(m1.t, "error",
                         <<"Sorry, I had a problem talking to OpenAI: ", err>>)]

\* Lines 203-211: the provider failed.
ProviderError(m, err) ==
    [m EXCEPT !.t = ConversationResult(m.t, "error",
                        <<"Sorry, I had a problem talking to OpenAI: ", err>>)]

\* Lines 279-287: the assistant's message is recorded, the list is stored
\* under the conversation id, and the reply is spoken.
Persist(m) ==
    [m EXCEPT !.history = (m.t.conversation_id :> m.t.messages) @@ @]

Finish(m) ==
    LET m1 == Persist(Append_(m, "assistant", m.t.reply))
    IN  [m1 EXCEPT !.t = ConversationResult(m1.t, "speech", m.t.reply)]

\* The Python str of a JSON string; any other value is shown as one piece.
PyRepr(v) == IF v.t = "str" THEN v.v ELSE "<object>"
PyStr(v) == <<PyRepr(v)>>

\* Lines 263-276: the reply is the "assistant" field; without it the turn
\* ends with an error.
ComposeReply(m) ==
    IF "assistant" \in DOMAIN m.t.json_response.v
    THEN Finish([m EXCEPT !.t.reply = PyStr(m.t.json_response.v["assistant"])])
    ELSE [m EXCEPT !.t = ConversationResult(m.t, "error",
                    <<"Sorry, there was an error understanding OpenAI: ", "'assistant'">>)]

\* CaughtKeyError without the except clause.
UncaughtKeyError(m) == [m EXCEPT !.t = Raise(m.t, "KeyError")]

\* Lines 260-261: KeyError inside the try is logged and the turn goes on
\* to the reply.
CaughtKeyError(m) == ComposeReply(m)

\* for entity in ...: a value that is not a list yields no dicts; it yields
\* nothing at all when it is empty.
IterEmpty(v) ==
    \/ v.t = "list" /\ Len(v.v) = 0
    \/ v.t = "dict" /\ DOMAIN v.v = {}
    \/ v.t = "str" /\ v.v = ""

RECURSIVE Dispatch(_)
\* Lines 250-261 from entity number idx + 1 up to the next await, or to the
\* end of the loop.  KeyError leaves the loop; any other exception leaves
\* async_process.
Dispatch(m) ==
    LET j == m.t.json_response
    IN  IF j.t # "dict" THEN [m EXCEPT !.t = Raise(m.t, "TypeError")]
        ELSE IF "entities" \notin DOMAIN j.v THEN CaughtKeyError(m)
        ELSE IF IterEmpty(j.v["entities"]) THEN ComposeReply(m)
        ELSE IF j.v["entities"].t # "list" THEN [m EXCEPT !.t = Raise(m.t, "TypeError")]
        ELSE IF m.t.idx >= Len(j.v["entities"].v) THEN ComposeReply(m)
        ELSE LET entity == j.v["entities"].v[m.t.idx + 1]
             IN  IF entity.t # "dict" THEN [m EXCEPT !.t = Raise(m.t, "TypeError")]
                 ELSE IF {"domain", "action"} \ DOMAIN entity.v # {} THEN CaughtKeyError(m)
                 ELSE IF entity.v["domain"].t # "str" \/ entity.v["action"].t # "str"
                      THEN [m EXCEPT !.t = Raise(m.t, "AttributeError")]
                 ELSE LET d == entity.v["domain"].v
                          a == entity.v["action"].v
                          m1 == [m EXCEPT !.t.calls = Append(@, Call("has_service", d, a, ""))]
                      IN  IF ~has_service(d, a)
                          THEN Dispatch([m1 EXCEPT !.t.idx = @ + 1])
                          ELSE IF "id" \notin DOMAIN entity.v THEN CaughtKeyError(m1)
                          ELSE [m1 EXCEPT !.t.pc = "await_call",
                                          !.t.calls = Append(@, Call("async_call", d, a,
                                                                PyRepr(entity.v["id"])))]

\* Extract without the second pass.
Extract_DirectOnly(m, content) ==
    LET first == json_loads(content)
    IN  [m EXCEPT !.t.content = content,
                  !.t.reply = content,
                  !.t.first_ok = first.ok,
                  !.t.parsed = first.ok,
                  !.t.json_response = IF first.ok THEN first.val ELSE JStr("")]

\* Lines 221-243: json.loads of the whole content, then of the text from
\* the first "{" to the last "}"; the later success is the one kept.
\* (start_idx is not -1: an identity test that CPython answers as !=.)
Extract(m, content) ==
    LET first == json_loads(content)
        start_idx == find(content, "{")
        end_idx == rfind(content, "}") + 1
        tried == start_idx # -1 /\ end_idx # -1
        second == IF tried THEN json_loads(Slice(content, start_idx, end_idx))
                  ELSE [ok |-> FALSE, val |-> JStr("")]
    IN  [m EXCEPT !.t.content = content,
                  !.t.reply = content,
                  !.t.first_ok = first.ok,
                  !.t.second_ok = second.ok,
                  !.t.parsed = first.ok \/ second.ok,
                  !.t.json_response = IF second.ok THEN second.val
                                      ELSE IF first.ok THEN first.val ELSE JStr("")]

\* Respond treating text without JSON as a failed turn.
Respond_RequiresJson(m, content) ==
    LET m1 == Extract(m, content)
    IN  IF m1.t.parsed THEN Dispatch(m1)
        ELSE [m1 EXCEPT !.t = ConversationResult(m1.t, "error",
                     <<"Sorry, there was an error understanding OpenAI: ", "no JSON">>)]

\* Lines 213-287 up to the first await.
Respond(m, content) ==
    LET m1 == Extract(m, content)
    IN  IF m1.t.parsed THEN Dispatch(m1) ELSE Finish(m1)

\* Line 253 returns: the loop goes on with the next entity.
Resume(m) == Dispatch([m EXCEPT !.t.idx = @ + 1])

(***************************************************************************)
(* What the model may answer: payloads in the JSON template of             *)
(* SYSTEM_PROMPT, whole or with a key or a field dropped, written out by   *)
(* dumps and then sent bare, after a sentence, or inside a list; and text  *)
(* that is no JSON.                                                        *)
(***************************************************************************)
KeyOrder == <<"entities", "assistant", "id", "domain", "action">>

RECURSIVE dumps(_), dumps_members(_, _), dumps_elements(_)
dumps(v) ==
    IF v.t = "str" THEN <<v.v>>
    ELSE IF v.t = "list" THEN <<"[">> \o dumps_elements(v.v) \o <<"]">>
    ELSE <<"{">> \o dumps_members(v.v, SelectSeq(KeyOrder, LAMBDA k : k \in DOMAIN v.v))
                 \o <<"}">>

dumps_members(d, keys) ==
    IF Len(keys) = 0 THEN <<>>
    ELSE <<keys[1], ":">> \o dumps(d[keys[1]])
             \o (IF Len(keys) = 1 THEN <<>> ELSE <<",">> \o dumps_members(d, Tail(keys)))

dumps_elements(l) ==
    IF Len(l) = 0 THEN <<>>
    ELSE dumps(l[1]) \o (IF Len(l) = 1 THEN <<>> ELSE <<",">> \o dumps_elements(Tail(l)))

Entity(id, domain, action) ==
    JDict([k \in {"id", "domain", "action"} |->
              JStr(IF k = "id" THEN id ELSE IF k = "domain" THEN domain ELSE action)])

Without(entity, key) == JDict([k \in DOMAIN entity.v \ {key} |-> entity.v[k]])

Entities ==
    { Entity("light.kitchen", "light", "turn_on"),
      Entity("light.kitchen", "light", "dim"),
      Without(Entity("light.kitchen", "light", "turn_on"), "id"),
      Without(Entity("light.kitchen", "light", "turn_on"), "domain") }

EntityLists == UNION {[1..n -> Entities] : n \in 0..MaxEntities}

Assistants == {"Turning on the kitchen light."}

Payloads ==
    {JDict([k \in {"entities", "assistant"} |->
               IF k = "entities" THEN JList(l) ELSE JStr(a)])
        : l \in EntityLists, a \in Assistants}
    \cup {JDict([k \in {"entities"} |-> JList(l)]) : l \in EntityLists}
    \cup {JDict([k \in {"assistant"} |-> JStr(a)]) : a \in Assistants}
    \cup {JDict(<<>>)}

NotJson ==
    { <<"Hello! How can I help?">>,
      <<"Sure thing!", "{", "oops">>,
      <<"{", "oops", "}">> }

\* The payloads that are also sent inside other text.
Short == {v \in Payloads : "entities" \in DOMAIN v.v => Len(v.v["entities"].v) <= 1}

Contents ==
    {dumps(v) : v \in Payloads}
    \cup {<<"Sure thing!">> \o dumps(v) : v \in Short}
    \cup {dumps(JList(<<v>>)) : v \in Short}
    \cup {dumps(JStr("Done."))}
    \cup NotJson

(***************************************************************************)
(* The steps of a turn: async_process runs from one await to the next.     *)
(***************************************************************************)
Frame(p) == [t |-> turn[p], heap |-> heap, history |-> history, ulids |-> ulids]

Active(t) == t.pc \in {"await_llm", "await_call"}

\* Frame t of p runs while another frame is suspended under the same id.
Overlaps(p, t) ==
    \E q \in Procs \ {p} :
        Active(turn[q]) /\ turn[q].conversation_id = t.conversation_id

Set(p, m) ==
    /\ turn' = [q \in Procs |->
                   IF q = p THEN [m.t EXCEPT !.shared = @ \/ Overlaps(p, m.t)]
                   ELSE IF Active(turn[q])
                           /\ turn[q].conversation_id = m.t.conversation_id
                        THEN [turn[q] EXCEPT !.shared = TRUE]
                        ELSE turn[q]]
    /\ history' = m.history
    /\ heap' = Collect(m.heap, m.history, p, m.t)
    /\ ulids' = m.ulids
    /\ hass' = hass

\* user_input.conversation_id: none, or one that an earlier turn generated
\* (stored by now, or returned with an error and never stored).
CallerIds == {None} \cup {ToString(n) : n \in 1..ulids}

\* async_process is called (lines 99-202).
async_process_within(p, limit) ==
    /\ turns < limit
    /\ turn[p].pc \in {"idle", "done", "raised"}
    /\ turns' = turns + 1
    /\ \E cid \in CallerIds, text \in Texts, raw_prompt \in RawPrompts :
          Set(p, Begin([Frame(p) EXCEPT
                            !.t = [IdleTurn EXCEPT !.cid_in = cid,
                                                   !.text = text,
                                                   !.raw_prompt = raw_prompt,
                                                   !.before = Stored,
                                                   !.known = cid \in DOMAIN history]],
                       raw_prompt))

async_process(p) == async_process_within(p, MaxTurns)

\* openai.ChatCompletion.acreate returns (lines 213-287 to the next await).
acreate_returns_from(p, contents) ==
    /\ turn[p].pc = "await_llm"
    /\ \E content \in contents : Set(p, Respond(Frame(p), content))
    /\ UNCHANGED turns

acreate_returns(p) == acreate_returns_from(p, Contents)

\* openai.ChatCompletion.acreate raises error.OpenAIError (lines 203-211).
acreate_raises(p) ==
    /\ turn[p].pc = "await_llm"
    /\ \E err \in {"RateLimitError"} : Set(p, ProviderError(Frame(p), err))
    /\ UNCHANGED turns

\* hass.services.async_call returns (line 253, then the loop goes on).
async_call_returns(p) ==
    /\ turn[p].pc = "await_call"
    /\ Set(p, Resume(Frame(p)))
    /\ UNCHANGED turns

\* hass.services.async_call raises (line 253): nothing catches it.
async_call_raises(p) ==
    /\ turn[p].pc = "await_call"
    /\ Set(p, [Frame(p) EXCEPT !.t = Raise(@, "HomeAssistantError")])
    /\ UNCHANGED turns

\* One turn at a time.
Sequential(p) == \A q \in Procs \ {p} : turn[q].pc \in {"idle", "done", "raised"}

Next ==
    \E p \in Procs :
        \/ Sequential(p) /\ p = "t1" /\ async_process(p)
        \/ acreate_returns(p)
        \/ acreate_raises(p)
        \/ async_call_returns(p)
        \/ async_call_raises(p)

Spec == Init /\ [][Next]_vars

\* Turns that overlap: async_process is a coroutine, and a second call can
\* start whenever the first is suspended at an await.  The agent has
\* finished one turn of a new conversation, stored under the first ulid.
FirstTurn ==
    <<Message("system", <<"You are the voice of ", location_name, ".">> \o SYSTEM_PROMPT),
      Message("user", <<"turn on the kitchen light">>),
      Message("assistant", <<"Turning on the kitchen light.">>)>>

InitConc ==
    /\ hass = Home
    /\ history = (ulid(0) :> 1)
    /\ heap = (1 :> FirstTurn)
    /\ ulids = 1
    /\ turns = 1
    /\ turn = [p \in Procs |-> IdleTurn]

\* What the model answers to the overlapping turns.
ConcContents ==
    { dumps(JDict([k \in {"entities", "assistant"} |->
                      IF k = "entities"
                      THEN JList(<<Entity("light.kitchen", "light", "turn_on")>>)
                      ELSE JStr("Turning on the kitchen light.")])),
      dumps(JDict([k \in {"assistant"} |-> JStr("Turning on the kitchen light.")])),
      dumps(JDict(<<>>)),
      <<"Hello! How can I help?">> }

NextConc ==
    \E p \in Procs :
        \/ async_process_within(p, MaxTurns + 1)
        \/ acreate_returns_from(p, ConcContents)
        \/ acreate_raises(p)
        \/ async_call_returns(p)
        \/ async_call_raises(p)

SpecConc == InitConc /\ [][NextConc]_vars

\* Prompt rendering on every host: turns one at a time, each rendering the
\* prompt and calling the model, which fails.
InitRender ==
    /\ hass \in Hosts
    /\ history = <<>>
    /\ heap = <<>>
    /\ ulids = 0
    /\ turns = 0
    /\ turn = [p \in Procs |-> IdleTurn]

NextRender ==
    \E p \in Procs :
        \/ Sequential(p) /\ p = "t1" /\ async_process(p)
        \/ acreate_raises(p)

SpecRender == InitRender /\ [][NextRender]_vars

(***************************************************************************)
(* What a finished turn shows.                                             *)
(***************************************************************************)
Ended(t) == t.pc \in {"done", "raised"}

Calls(t, op) == SelectSeq(t.calls, LAMBDA c : c.op = op)

\* The payload the turn worked on, when extraction gave a dict.
HasPayload(t) == t.parsed /\ t.json_response.t = "dict"
HasKey(t, k) == HasPayload(t) /\ k \in DOMAIN t.json_response.v
Items(t) == t.json_response.v["entities"].v

\* An item names a capability, names a registered one, names its entity.
Named(e) == {"domain", "action"} \subseteq DOMAIN e.v
Registered(e) == Named(e) /\ has_service(e.v["domain"].v, e.v["action"].v)
Complete(e) == {"id", "domain", "action"} \subseteq DOMAIN e.v
Valid(e) == Complete(e) /\ Registered(e)

Number(items, P(_)) == Cardinality({i \in 1..Len(items) : P(items[i])})

SystemMessage(t) ==
    Message("system", _async_generate_prompt(t.raw_prompt) \o SYSTEM_PROMPT)
UserMessage(t) == Message("user", <<t.text>>)

\* The history the turn started from.
Base(t) == IF t.known THEN t.before[t.cid_in] ELSE <<SystemMessage(t)>>

ProviderFailed(t) ==
    /\ t.pc = "done"
    /\ t.result.text[1] = "Sorry, I had a problem talking to OpenAI: "

\* C1: when the preamble template fails to render, the turn returns an
\* error reply, calls neither the model nor any service, and leaves the
\* session store as it was, whatever conversation id was supplied.
C1_TemplateErrorReply ==
    \A p \in Procs :
        LET t == turn[p]
        IN  Ended(t) /\ TemplateError(t.raw_prompt) =>
                /\ t.pc = "done"
                /\ t.result.kind = "error"
                /\ t.calls = <<>>
                /\ Stored = t.before

\* C2: when the model call fails, the turn returns an error reply, looks up
\* and invokes nothing, and the stored histories are those from before the
\* turn: the user message of the failed turn is not recorded.
C2_ProviderErrorKeepsStore ==
    \A p \in Procs :
        LET t == turn[p]
        IN  ProviderFailed(t) =>
                /\ t.result.kind = "error"
                /\ ~t.parsed
                /\ Len(t.calls) = 1
                /\ Stored = t.before

\* C3: a turn that starts without a known conversation id and ends with a
\* spoken reply returns a new conversation id, under which the store holds
\* exactly system (rendered preamble, then SYSTEM_PROMPT), user (the
\* utterance), assistant (the reply returned).
C3_NewConversationHistory ==
    \A p \in Procs :
        LET t == turn[p]
        IN  t.pc = "done" /\ t.result.kind = "speech" /\ ~t.known =>
                /\ t.result.conversation_id \notin DOMAIN t.before
                /\ t.result.conversation_id # t.cid_in
                /\ t.result.conversation_id \in DOMAIN Stored
                /\ Stored[t.result.conversation_id] =
                       <<SystemMessage(t), UserMessage(t),
                         Message("assistant", t.result.text)>>

C3_Witness ==
    \E p \in Procs :
        LET t == turn[p]
        IN  /\ t.pc = "done" /\ t.result.kind = "speech" /\ ~t.known
            /\ t.raw_prompt = <<"You are the voice of ", "{{ ha_name }}", ".">>
            /\ Stored[t.result.conversation_id][1].content =
                   <<"You are the voice of ", "Home", ".">> \o SYSTEM_PROMPT
            /\ t.result.text = <<"Turning on the kitchen light.">>
            /\ Calls(t, "async_call") =
                   <<Call("async_call", "light", "turn_on", "light.kitchen")>>

\* C4: a payload with both keys yields the assistant field as the reply,
\* one capability lookup per item, and one invocation per item whose
\* capability is registered.
C4_PayloadRoundTrip ==
    \A p \in Procs :
        LET t == turn[p]
        IN  Ended(t) /\ HasKey(t, "entities") /\ HasKey(t, "assistant") =>
                /\ t.pc = "done"
                /\ t.result.kind = "speech"
                /\ t.result.text = PyStr(t.json_response.v["assistant"])
                /\ Len(Calls(t, "has_service")) = Number(Items(t), Named)
                /\ Len(Calls(t, "async_call")) = Number(Items(t), Valid)

\* C5: an unknown, malformed or rejected action neither keeps the valid
\* actions of the same batch from being invoked nor fails the turn.
C5_PartialFailure ==
    \A p \in Procs :
        LET t == turn[p]
        IN  Ended(t) /\ HasKey(t, "entities") =>
                /\ t.pc = "done"
                /\ (HasKey(t, "assistant") => t.result.kind = "speech")
                /\ Len(Calls(t, "async_call")) = Number(Items(t), Valid)

\* C6: with an entities key and no assistant key the turn ends with an
\* error reply, and by then every registered action of the payload has
\* been invoked.
C6_DispatchBeforeError ==
    \A p \in Procs :
        LET t == turn[p]
        IN  Ended(t) /\ HasKey(t, "entities") /\ ~HasKey(t, "assistant") =>
                /\ t.pc = "done"
                /\ t.result.kind = "error"
                /\ Len(Calls(t, "async_call")) = Number(Items(t), Valid)

\* C7: when the payload lacks the assistant key and the turn returns, the
\* store holds under the returned conversation id the history with this
\* turn's user message last and no assistant message after it, for a new
\* as for a known conversation id.
C7_HistoryUpdatedWithoutAssistant ==
    \A p \in Procs :
        LET t == turn[p]
        IN  t.pc = "done" /\ HasPayload(t) /\ ~HasKey(t, "assistant") =>
                /\ t.result.conversation_id \in DOMAIN Stored
                /\ Stored[t.result.conversation_id] = Append(Base(t), UserMessage(t))

\* Neither json.loads of the whole text nor json.loads of the text from the
\* first "{" to the last "}" gives a value.
NoJson(content) ==
    /\ ~json_loads(content).ok
    /\ \/ find(content, "{") = -1
       \/ ~json_loads(Slice(content, find(content, "{"),
                            rfind(content, "}") + 1)).ok

\* C8: when neither parse of the model's text gives JSON, the turn is no
\* error: nothing is looked up or invoked, the reply is the raw text, and
\* the history gains the user message and then an assistant message holding
\* that raw text.
C8_RawTextFallback ==
    \A p \in Procs :
        LET t == turn[p]
        IN  Ended(t) /\ t.content # <<>> /\ NoJson(t.content) =>
                /\ t.pc = "done"
                /\ t.result.kind = "speech"
                /\ t.result.text = t.content
                /\ Len(t.calls) = 1
                /\ t.result.conversation_id \in DOMAIN Stored
                /\ Stored[t.result.conversation_id] =
                       Base(t) \o <<UserMessage(t), Message("assistant", t.content)>>

C8_Witness ==
    \E p \in Procs :
        LET t == turn[p]
        IN  /\ t.pc = "done" /\ t.known
            /\ t.content = <<"{", "oops", "}">>
            /\ t.result.text = <<"{", "oops", "}">>
            /\ Len(Stored[t.cid_in]) = 5

\* C9: a payload with an assistant key and no entities key means no
\* action: nothing is looked up or invoked, the turn is no error, the reply
\* is the assistant field, and the history gains the user and the
\* assistant message.
C9_NoEntitiesKey ==
    \A p \in Procs :
        LET t == turn[p]
        IN  Ended(t) /\ HasKey(t, "assistant") /\ ~HasKey(t, "entities") =>
                /\ t.pc = "done"
                /\ t.result.kind = "speech"
                /\ t.result.text = PyStr(t.json_response.v["assistant"])
                /\ Len(t.calls) = 1
                /\ t.result.conversation_id \in DOMAIN Stored
                /\ Stored[t.result.conversation_id] =
                       Base(t) \o <<UserMessage(t), Message("assistant", t.result.text)>>

C9_Witness ==
    \E p \in Procs :
        LET t == turn[p]
        IN  /\ t.pc = "done" /\ t.known
            /\ t.content = <<"{", "assistant", ":", "Turning on the kitchen light.", "}">>
            /\ t.result.text = <<"Turning on the kitchen light.">>
            /\ Stored[t.cid_in][5] =
                   Message("assistant", <<"Turning on the kitchen light.">>)

\* A turn that has resolved its session.
Resolved(t) == t.pc \in {"await_llm", "await_call", "done"} /\ t.calls # <<>>

\* C10: a turn whose conversation id is absent or no key of the store runs
\* under an identifier that is new to the store, on a history seeded with
\* one system message; a turn whose id is a key of the store runs under
\* that id and continues its history.  No two identifiers of the store
\* share a history object, and a new conversation shares none either.
C10_SessionResolution ==
    /\ \A p \in Procs :
        LET t == turn[p]
        IN  Resolved(t) =>
                /\ t.openai_messages =
                       Append(Base(t), Message("user", prompt_render(t.text)))
                /\ t.known =>
                       /\ t.conversation_id = t.cid_in
                       /\ t.pc # "done" => t.messages = history[t.cid_in]
                /\ ~t.known =>
                       /\ t.conversation_id \notin DOMAIN t.before
                       /\ t.conversation_id # t.cid_in
                       /\ t.pc # "done" =>
                              \A k \in DOMAIN history : history[k] # t.messages
                /\ t.pc = "done" => t.result.conversation_id = t.conversation_id
    /\ \A k1, k2 \in DOMAIN history : history[k1] = history[k2] => k1 = k2

C10_Witness ==
    \E p \in Procs :
        /\ turn[p].pc = "done" /\ ~turn[p].known
        /\ turn[p].cid_in = "1"
        /\ turn[p].result.conversation_id = "2"
        /\ DOMAIN history = {"2"}
        /\ Len(turn[p].openai_messages) = 2

IsPrefix(a, b) == Len(a) <= Len(b) /\ SubSeq(b, 1, Len(a)) = a

\* Roles in turn order: one system message first, and every assistant
\* message right after a user message.
InTurnOrder(h) ==
    /\ Len(h) >= 1
    /\ h[1].role = "system"
    /\ \A i \in 2..Len(h) :
          /\ h[i].role \in {"user", "assistant"}
          /\ h[i].role = "assistant" => h[i - 1].role = "user"

\* C11: with turns run one at a time, every stored history starts with a
\* system message and has its messages in turn order, and no step removes
\* a history or changes one other than by appending to it.
C11_AppendOnly ==
    [][ /\ \A k \in DOMAIN Stored' : InTurnOrder(Stored'[k])
        /\ \A k \in DOMAIN Stored :
              k \in DOMAIN Stored' /\ IsPrefix(Stored[k], Stored'[k]) ]_vars

C11_Witness ==
    \E p \in Procs :
        /\ ProviderFailed(turn[p]) /\ turn[p].known
        /\ Len(turn[p].before[turn[p].cid_in]) = 3
        /\ Len(Stored[turn[p].cid_in]) = 4

\* The text is a sentence followed by a JSON object.
ProseThenObject(content) ==
    /\ Len(content) >= 3
    /\ content[1] \in Prose
    /\ content[2] = "{"
    /\ json_loads(Tail(content)).ok

\* C12: when the model's text is a sentence followed by a JSON object, the
\* whole text is no JSON and the payload is the object from the first "{"
\* to the last "}"; a reply is then the payload's assistant field, and with
\* an empty entities list nothing is looked up or invoked.
C12_SecondPassRecovery ==
    \A p \in Procs :
        LET t == turn[p]
        IN  Ended(t) /\ ProseThenObject(t.content) =>
                /\ ~json_loads(t.content).ok
                /\ HasPayload(t)
                /\ t.json_response = json_loads(Tail(t.content)).val
                /\ HasKey(t, "assistant") /\ t.pc = "done" =>
                       /\ t.result.kind = "speech"
                       /\ t.result.text = PyStr(t.json_response.v["assistant"])
                /\ HasKey(t, "assistant") /\ HasKey(t, "entities") /\ Items(t) = <<>> =>
                       /\ t.pc = "done"
                       /\ Len(t.calls) = 1

C12_Witness ==
    \E p \in Procs :
        LET t == turn[p]
        IN  /\ t.pc = "done"
            /\ t.content = <<"Sure thing!", "{", "entities", ":", "[", "]", ",",
                             "assistant", ":", "Turning on the kitchen light.", "}">>
            /\ t.result.kind = "speech"
            /\ t.result.text = <<"Turning on the kitchen light.">>
            /\ Len(t.calls) = 1

\* C13: whenever json.loads of the whole text succeeds, its result is the
\* payload the turn works on.
C13_FirstSuccessWins ==
    \A p \in Procs :
        LET t == turn[p]
        IN  Ended(t) /\ t.content # <<>> /\ json_loads(t.content).ok =>
                t.json_response = json_loads(t.content).val

\* C15: a turn calls the model at most once; its lookups and invocations
\* come after the model has answered and before the assistant message is
\* appended; and the session store is as it was when the turn began until
\* the reply is composed.
C15_TurnOrder ==
    \A p \in Procs :
        LET t == turn[p]
        IN  /\ Len(Calls(t, "acreate")) <= 1
            /\ Len(t.calls) > 1 => t.calls[1].op = "acreate" /\ t.content # <<>>
            /\ t.pc = "await_call" =>
                   heap[t.messages][Len(heap[t.messages])].role = "user"
            /\ Active(t) => Stored = t.before

\* C16: no turn ends by an exception: a turn that has ended has returned a
\* spoken reply or an error reply.
C16_NoUnhandledException ==
    \A p \in Procs :
        LET t == turn[p]
        IN  Ended(t) => t.pc = "done" /\ t.result.kind \in {"speech", "error"}

HasEntityBlock(message) ==
    \E i \in 1..Len(message.content) : message.content[i] = "Entities:\n"

\* C18: what a turn sends to the model is the history it started from and
\* then one user message holding the rendered prompt; the stored history
\* gets the utterance itself, so no stored message holds an entity block
\* and none is sent again in a later turn.
C18_RenderedPromptNotStored ==
    /\ \A p \in Procs :
        LET t == turn[p]
        IN  Resolved(t) =>
                /\ t.openai_messages =
                       Append(Base(t), Message("user", prompt_render(t.text)))
                /\ HasEntityBlock(t.openai_messages[Len(t.openai_messages)])
                /\ \A i \in 1..(Len(t.openai_messages) - 1) :
                       ~HasEntityBlock(t.openai_messages[i])
    /\ \A a \in DOMAIN heap : \A i \in 1..Len(heap[a]) : ~HasEntityBlock(heap[a][i])

C18_Witness ==
    \E p \in Procs :
        LET t == turn[p]
        IN  /\ t.pc = "done" /\ t.known /\ t.result.kind = "speech"
            /\ Len(t.openai_messages) = 4
            /\ t.openai_messages[2] = Message("user", <<"turn on the kitchen light">>)
            /\ t.text = "is the light on?"
            /\ Stored[t.cid_in][4] = Message("user", <<"is the light on?">>)

\* C19: an identifier becomes a key of the store only in the step that
\* ends a turn with a spoken reply under that identifier, keys are never
\* removed, every stored history has at least three messages, one of them
\* from the assistant, and a new conversation that ends with an error reply
\* returns an identifier that is no key of the store and is not the
\* identifier the caller supplied.
C19_KeysOnlyOnSuccess ==
    [][ /\ DOMAIN history \subseteq DOMAIN history'
        /\ \A k \in DOMAIN history' \ DOMAIN history :
              \E p \in Procs :
                  /\ Active(turn[p])
                  /\ turn'[p].pc = "done"
                  /\ turn'[p].result.kind = "speech"
                  /\ turn'[p].result.conversation_id = k
        /\ \A k \in DOMAIN Stored' :
              /\ Len(Stored'[k]) >= 3
              /\ \E i \in 1..Len(Stored'[k]) : Stored'[k][i].role = "assistant"
        /\ \A p \in Procs :
              (/\ turn'[p].pc = "done"
               /\ turn'[p].result.kind = "error"
               /\ ~turn'[p].known)
                  => /\ turn'[p].result.conversation_id \notin DOMAIN history'
                     /\ turn'[p].result.conversation_id # turn'[p].cid_in ]_vars

C19_Witness ==
    \E p \in Procs :
        LET t == turn[p]
        IN  /\ t.pc = "done" /\ t.result.kind = "error"
            /\ HasPayload(t) /\ ~HasKey(t, "assistant")
            /\ t.cid_in = "1" /\ ~t.known
            /\ t.result.conversation_id = "2"
            /\ history = <<>>

Exposed(entity_id) ==
    /\ entity_id \in DOMAIN hass.registry_entities
    /\ hass.registry_entities[entity_id].should_expose

\* The first piece of each line of a block of lines.
LineHeads(block) ==
    LET starts == SelectSeq([i \in 1..Len(block) |-> i],
                            LAMBDA i : i = 1 \/ block[i - 1] = "\n")
    IN  [j \in 1..Len(starts) |-> block[starts[j]]]

\* C17: the entity block of the rendered prompt has one line for each
\* exposed entity, in the order the host enumerates them, and none for an
\* entity that is not registered or not exposed; the prompt ends with the
\* utterance itself between double quotes.
C17_OneLinePerExposedEntity ==
    \A p \in Procs :
        LET t == turn[p]
            rendered == t.openai_messages[Len(t.openai_messages)].content
            n == Len(rendered)
            block == SubSeq(rendered, 2, n - 3)
        IN  Resolved(t) =>
                /\ n >= 4
                /\ rendered[1] = "Entities:\n"
                /\ SubSeq(rendered, n - 2, n) = <<"\n\nPrompt: \"", t.text, "\"\n">>
                /\ LineHeads(block) = SelectSeq(hass.entity_ids, Exposed)
                /\ Len(SelectSeq(block, LAMBDA x : x = "\n"))
                       = Len(SelectSeq(hass.entity_ids, Exposed))
                /\ block # <<>> => block[Len(block)] = "\n"

C17_Witness ==
    \E p \in Procs :
        LET t == turn[p]
        IN  /\ Resolved(t)
            /\ hass.entity_ids = <<"light.hall", "sensor.attic", "light.kitchen">>
            /\ Exposed("light.hall") /\ Exposed("light.kitchen")
            /\ "sensor.attic" \in DOMAIN hass.registry_entities
            /\ ~Exposed("sensor.attic")
            /\ t.text = "is the light on?"
            /\ t.openai_messages[Len(t.openai_messages)].content =
                   <<"Entities:\n",
                     "light.hall", "<>", "light.hall", "<>", "light", "<>",
                         "unknown", "<>", "turn_on", ",", "turn_off", "\n",
                     "light.kitchen", "<>", "Kitchen", "<>", "light", "<>",
                         "off", "<>", "turn_on", ",", "turn_off", "\n",
                     "\n\nPrompt: \"", "is the light on?", "\"\n">>

Roles(h) == [i \in 1..Len(h) |-> h[i].role]

\* Two suspended turns of one stored conversation.
Contend(t, u) ==
    /\ Active(t) /\ Active(u)
    /\ t.known /\ u.known
    /\ t.conversation_id = u.conversation_id

SpokenUnder(t, u) ==
    /\ t.pc = "done" /\ u.pc = "done"
    /\ t.result.kind = "speech" /\ u.result.kind = "speech"
    /\ t.shared /\ u.shared
    /\ t.conversation_id = u.conversation_id

\* C14: two turns suspended under one stored id work on the same list, and
\* the one that began later has sent the model the history the earlier one
\* began from and then the earlier one's user message, which has no reply
\* yet; when both have spoken, the stored history is not in turn order.
C14_SameIdNotSerialized ==
    \A p, q \in Procs :
        LET t == turn[p]
            u == turn[q]
        IN  p # q =>
            /\ Contend(t, u) =>
                  /\ t.messages = u.messages
                  /\ Len(t.openai_messages) # Len(u.openai_messages)
                  /\ Len(t.openai_messages) < Len(u.openai_messages) =>
                        /\ IsPrefix(Base(t), u.openai_messages)
                        /\ u.openai_messages[Len(t.openai_messages)] = UserMessage(t)
                        /\ heap[t.messages][Len(t.openai_messages)] = UserMessage(t)
            /\ SpokenUnder(t, u) => ~InTurnOrder(Stored[t.conversation_id])

C14_Witness ==
    LET t == turn["t1"]
        u == turn["t2"]
    IN  /\ SpokenUnder(t, u)
        /\ t.text = "turn on the kitchen light"
        /\ u.text = "is the light on?"
        /\ u.openai_messages =
               FirstTurn \o <<UserMessage(t), Message("user", prompt_render(u.text))>>
        /\ Stored[ulid(0)] =
               FirstTurn \o <<UserMessage(t), UserMessage(u),
                              Message("assistant", <<"Turning on the kitchen light.">>),
                              Message("assistant", <<"Hello! How can I help?">>)>>

\* What a turn that ran alone leaves in the store st.
Alone(t, st) ==
    LET k == t.conversation_id
    IN  IF t.pc = "done" /\ t.result.kind = "speech"
        THEN /\ k \in DOMAIN st
             /\ st[k] = Base(t) \o <<UserMessage(t), Message("assistant", t.result.text)>>
        ELSE IF t.known THEN k \in DOMAIN st /\ st[k] = Base(t) \o <<UserMessage(t)>>
        ELSE k \notin DOMAIN st

\* C20: overlapping turns under different conversation ids do not touch
\* each other: a step changes the stored history of an id, or the list a
\* suspended turn works on, only when it is a step of a turn under that
\* id, and a turn that shared its id with no other turn leaves under its
\* id the history it would have left had it run alone.
C20_DifferentIdsIsolated ==
    [][ /\ \A k \in DOMAIN Stored' :
              (k \notin DOMAIN Stored \/ Stored'[k] # Stored[k]) =>
                  \E p \in Procs :
                      turn'[p] # turn[p] /\ turn'[p].conversation_id = k
        /\ \A q \in Procs :
              (Active(turn[q]) /\ turn'[q] = turn[q]) =>
                  \/ heap'[turn[q].messages] = heap[turn[q].messages]
                  \/ \E p \in Procs \ {q} :
                        /\ turn'[p] # turn[p]
                        /\ turn'[p].conversation_id = turn[q].conversation_id
        /\ \A p \in Procs :
              (Active(turn[p]) /\ Ended(turn'[p]) /\ ~turn'[p].shared) =>
                  Alone(turn'[p], Stored') ]_vars

C20_Witness ==
    LET t == turn["t1"]
        u == turn["t2"]
    IN  /\ t.pc = "await_call" /\ t.known /\ ~t.shared
        /\ u.pc = "done" /\ u.result.kind = "speech" /\ ~u.known /\ ~u.shared
        /\ u.before[ulid(0)] = FirstTurn \o <<UserMessage(t)>>
        /\ Stored[ulid(0)] = FirstTurn \o <<UserMessage(t)>>
        /\ Stored[ulid(1)] =
               <<SystemMessage(u), UserMessage(u), Message("assistant", u.result.text)>>
====
